---- MODULE Spec2Model ----
(***************************************************************************)
(* A model of docs/source/generate_docs.py: the Jinja2 Renderer with its   *)
(* template cache and its write-if-changed render_to_file, the             *)
(* as_extlink filter, the per-folder generate_readme and the serial or     *)
(* parallel generate_recipes.                                              *)
(*                                                                         *)
(* Text is a sequence of one-character strings; "CR", "LF" and "BQ" stand  *)
(* for the carriage return, the line feed and the backquote.               *)
(***************************************************************************)
EXTENDS Integers, Sequences, FiniteSets, TLC

\* Longest context text handed to a template.
MaxLen == 2

\* Most successful get_template calls counted per template name.
MaxCompiles == 2

\* Most rows in the channel index.
MaxRows == 3

\* Most recipe directories the walk finds.
MaxDirs == 7

\* Largest app.parallel (sphinx -j).
MaxProc == 2

VARIABLES
    templates,  \* Renderer.templates: the names whose compiled template is cached
    compiled,   \* per template name, how often env.get_template compiled it
    fs,         \* per path, the bytes of the file, or NoFile
    dirs,       \* the directories that exist
    last,       \* the last Renderer call: its arguments and its outcome
    text,       \* as_extlink_filter: the argument it is called with
    extlinks,   \* as_extlink_filter: Pending, then what the call gave
    folder,     \* generate_readme: the recipe folder it is called on
    repodata,   \* generate_readme: the rows of the channel index (RepoData)
    result,     \* generate_readme: Pending, then the outcome of the call
    app,        \* generate_recipes: app.parallel, and sphinx's parallel_available
    recipe_dirs,\* generate_recipes: the folders os.walk found a meta.yaml in
    pc,         \* generate_recipes: where the calling process is
    mode,       \* generate_recipes: the branch of line 317 taken
    nproc,      \* generate_recipes: nproc, 0 before line 312
    next,       \* generate_recipes: the folder (serial) or chunk (parallel) up next
    recipes,    \* generate_recipes: the recipes list
    chunks,     \* generate_recipes: make_chunks(recipe_dirs, nproc)
    waiting,    \* ParallelTasks: the tasks added and not started, oldest first
    running,    \* ParallelTasks: the tasks started and not joined, oldest first
    pipe,       \* ParallelTasks: per task, what its process sent back, if anything
    wpos,       \* process_chunk: per task, the folder of its chunk up next
    acc,        \* process_chunk: per task, its _recipes list
    merged,     \* the tasks merge_chunk was called for, in the order of the calls
    index,      \* the recipes list rendered into source/recipes.rst, if rendered
    pages       \* the packages whose README.rst was rendered

wvars == <<templates, compiled, fs, dirs, last>>

fvars == <<text, extlinks>>

rvars == <<folder, repodata, result>>

gvars == <<app, recipe_dirs, pc, mode, nproc, next, recipes, chunks, waiting, running,
           pipe, wpos, acc, merged, index, pages>>

vars == <<templates, compiled, fs, dirs, last, text, extlinks, folder, repodata, result,
          app, recipe_dirs, pc, mode, nproc, next, recipes, chunks, waiting, running,
          pipe, wpos, acc, merged, index, pages>>

\* The parts of the state a specification of another part leaves untouched.
FilterIdle == text = <<>> /\ extlinks = <<>>

ReadmeIdle == folder = <<>> /\ repodata = {} /\ result = <<>>

RecipesIdle ==
    /\ app = <<>> /\ recipe_dirs = <<>> /\ pc = "idle" /\ mode = "none" /\ nproc = 0
    /\ next = 0 /\ recipes = <<>> /\ chunks = <<>> /\ waiting = <<>> /\ running = <<>>
    /\ pipe = <<>> /\ wpos = <<>> /\ acc = <<>> /\ merged = <<>> /\ index = <<>>
    /\ pages = {}

----
(* Text *)

\* The characters of a context text: the two line ends. The ordinary character "a"
\* comes from the text of a template.
Chars == {"CR", "LF"}

RECURSIVE SeqsUpTo(_, _)
SeqsUpTo(S, n) ==
    IF n = 0 THEN {<<>>}
    ELSE LET shorter == SeqsUpTo(S, n - 1)
         IN  shorter \cup {Append(s, c) : s \in {t \in shorter : Len(t) = n - 1}, c \in S}

Texts == SeqsUpTo(Chars, MaxLen)

----
(* The template engine: jinja2 behind SandboxedEnvironment *)

TemplateNames == {"readme.rst_t", "recipes.rst_t", "nosuch.rst_t"}

\* The templates the loader finds; get_template raises TemplateNotFound for the rest.
Loadable == {"readme.rst_t", "recipes.rst_t"}

\* template.render(**context): the template's own text around the context's text.
TemplateRender(template_name, context) ==
    IF template_name = "recipes.rst_t" THEN <<"a">> \o context ELSE context

----
(* The filesystem *)

\* The output file the calls are made on.
Paths == {"source/recipes.rst"}

NoFile == <<"NoFile">>

\* op.dirname(file_name)
dirname(file_name) ==
    IF file_name = "source/recipes.rst" THEN "source" ELSE "."

\* content.encode("utf-8"), written through open(file_name, "wb"): the bytes are
\* the characters, unchanged.
EncodeUtf8(content) == content

\* f.read() of open(file_name, encoding="utf-8"): text mode with the default
\* newline=None, so every CR LF and every lone CR is read as LF.
RECURSIVE ReadText(_)
ReadText(bytes) ==
    IF bytes = <<>> THEN <<>>
    ELSE IF Head(bytes) = "CR"
         THEN IF Len(bytes) >= 2 /\ bytes[2] = "LF"
              THEN <<"LF">> \o ReadText(Tail(Tail(bytes)))
              ELSE <<"LF">> \o ReadText(Tail(bytes))
         ELSE <<Head(bytes)>> \o ReadText(Tail(bytes))

\* os.path.exists(file_name)
Exists(file_name) == fs[file_name] # NoFile

----
(* Renderer *)

\* tick alternates from call to call, so that every call is a step.
NoCall == [op |-> "none", file_name |-> "none", template_name |-> "none",
           context |-> <<>>, ret |-> "none", text |-> <<>>, wrote |-> FALSE,
           hit |-> FALSE, tick |-> 0]

\* Renderer.render, lines 123-127: the cache after the lookup.
CacheNeverStores(template_name) == templates

CacheAfterLookup(template_name) ==
    IF template_name \in templates THEN templates
    ELSE templates \cup {template_name}

\* Renderer.render, line 126: env.get_template runs only on a cache miss.
CompiledAfterLookup(template_name) ==
    IF template_name \in templates THEN compiled
    ELSE [compiled EXCEPT ![template_name] = @ + 1]

\* Whether render raises: the template is neither cached nor loadable.
RenderRaises(template_name) ==
    template_name \notin templates /\ template_name \notin Loadable

\* A guard that keeps the compile counter finite.
CompileBounded(template_name) ==
    template_name \in templates \/ compiled[template_name] < MaxCompiles

\* Renderer.render(template_name, context)
Render(template_name, context) ==
    /\ CompileBounded(template_name)
    /\ UNCHANGED <<fvars, rvars, gvars>>
    /\ IF RenderRaises(template_name)
       THEN /\ last' = [NoCall EXCEPT !.tick = 1 - last.tick,
                                      !.op = "render",
                                      !.template_name = template_name,
                                      !.context = context,
                                      !.ret = "TemplateNotFound"]
            /\ UNCHANGED <<templates, compiled>>
       ELSE /\ templates' = CacheAfterLookup(template_name)
            /\ compiled' = CompiledAfterLookup(template_name)
            /\ last' = [NoCall EXCEPT !.tick = 1 - last.tick,
                                      !.op = "render",
                                      !.template_name = template_name,
                                      !.context = context,
                                      !.ret = "text",
                                      !.hit = template_name \in templates,
                                      !.text = TemplateRender(template_name, context)]
    /\ UNCHANGED <<fs, dirs>>

\* render_to_file, lines 147-150: the file exists and reads back as the content.
Unchanged(file_name, content) ==
    Exists(file_name) /\ ReadText(fs[file_name]) = content

\* Renderer.render_to_file(file_name, template_name, context)
RenderToFile(file_name, template_name, context) ==
    /\ CompileBounded(template_name)
    /\ UNCHANGED <<fvars, rvars, gvars>>
    /\ IF RenderRaises(template_name)
       THEN /\ last' = [NoCall EXCEPT !.tick = 1 - last.tick,
                                      !.op = "render_to_file",
                                      !.file_name = file_name,
                                      !.template_name = template_name,
                                      !.context = context,
                                      !.ret = "TemplateNotFound"]
            /\ UNCHANGED <<templates, compiled, fs, dirs>>
       ELSE LET content == TemplateRender(template_name, context)
            IN  /\ templates' = CacheAfterLookup(template_name)
                /\ compiled' = CompiledAfterLookup(template_name)
                /\ IF Unchanged(file_name, content)
                   THEN /\ UNCHANGED <<fs, dirs>>
                        /\ last' = [NoCall EXCEPT !.tick = 1 - last.tick,
                                                  !.op = "render_to_file",
                                                  !.file_name = file_name,
                                                  !.template_name = template_name,
                                                  !.context = context,
                                                  !.ret = "False",
                                                  !.hit = template_name \in templates,
                                                  !.text = content]
                   ELSE /\ dirs' = dirs \cup {dirname(file_name)}
                        /\ fs' = [fs EXCEPT ![file_name] = EncodeUtf8(content)]
                        /\ last' = [NoCall EXCEPT !.tick = 1 - last.tick,
                                                  !.op = "render_to_file",
                                                  !.file_name = file_name,
                                                  !.template_name = template_name,
                                                  !.context = context,
                                                  !.ret = "True",
                                                  !.hit = template_name \in templates,
                                                  !.text = content,
                                                  !.wrote = TRUE]

\* The Renderer before any call: see WriterInit.
WriterIdle ==
    /\ templates = {}
    /\ compiled = [t \in TemplateNames |-> 0]
    /\ fs = [p \in Paths |-> NoFile]
    /\ dirs = {}
    /\ last = NoCall

\* Renderer.__init__: an empty cache; no output file written yet.
WriterInit ==
    /\ WriterIdle
    /\ FilterIdle
    /\ ReadmeIdle
    /\ RecipesIdle

WriterNext ==
    \/ \E t \in TemplateNames, c \in Texts : Render(t, c)
    \/ \E p \in Paths, t \in TemplateNames, c \in Texts : RenderToFile(p, t, c)

SpecWriter == WriterInit /\ [][WriterNext]_vars

\* The step is a render_to_file call that rendered its content.
RenderToFileStep == last'.op = "render_to_file" /\ last'.ret # "TemplateNotFound"

\* C1: render_to_file is idempotent. A call on a path whose file already holds
\* exactly the rendered content returns False and writes nothing; any other call
\* writes the content and returns True; so the second of two consecutive calls with
\* the same arguments returns False and writes nothing.
C1_WriteOnlyWhenChanged ==
    [][RenderToFileStep =>
         /\ IF Exists(last'.file_name) /\ fs[last'.file_name] = EncodeUtf8(last'.text)
            THEN last'.ret = "False" /\ ~last'.wrote /\ fs' = fs
            ELSE last'.ret = "True" /\ last'.wrote
                 /\ fs' = [fs EXCEPT ![last'.file_name] = EncodeUtf8(last'.text)]
         /\ (/\ last.op = "render_to_file"
             /\ last.ret # "TemplateNotFound"
             /\ last.file_name = last'.file_name
             /\ last.template_name = last'.template_name
             /\ last.context = last'.context)
            => (last'.ret = "False" /\ ~last'.wrote)]_vars

\* C10: render compiles a template only on a cache miss and stores it, so no
\* template name is compiled twice; a hit leaves the cache alone; a failing
\* compilation surfaces as the error and leaves the cache mapping unchanged; the
\* text returned is the template rendered against the context of this call.
C10_CompiledAtMostOnce ==
    [][/\ \A t \in TemplateNames : compiled'[t] <= 1
       /\ last'.ret = "TemplateNotFound"
          => (last'.template_name \notin Loadable /\ UNCHANGED <<templates, compiled>>)
       /\ last'.template_name \in templates => UNCHANGED <<templates, compiled>>
       /\ (last'.ret # "TemplateNotFound" /\ last'.template_name \notin templates)
          => /\ templates' = templates \cup {last'.template_name}
             /\ compiled' = [compiled EXCEPT ![last'.template_name] = @ + 1]
       /\ last'.ret # "TemplateNotFound"
          => last'.text = TemplateRender(last'.template_name, last'.context)
       /\ last'.template_name \notin (templates \cup Loadable)
          => last'.ret = "TemplateNotFound"]_vars

\* C10's case: both templates are cached, compiled once each, the last call was
\* served from the cache, and a missing template was asked for before.
C10_Witness ==
    /\ templates = Loadable
    /\ \A t \in Loadable : compiled[t] = 1
    /\ compiled["nosuch.rst_t"] = 0
    /\ last.hit
    /\ last.ret \in {"text", "True", "False"}

\* C19: whenever render_to_file returns, with True or with False, the file at the
\* path exists and holds exactly the rendering of the template and the context; a
\* False result leaves no stale content.
C19_FileHoldsRendering ==
    (last.op = "render_to_file" /\ last.ret \in {"True", "False"}) =>
        /\ Exists(last.file_name)
        /\ fs[last.file_name] = EncodeUtf8(last.text)

----
(* as_extlink_filter *)

IdChars == {"p", ":"}

\* The identifiers of the docstring, and one with two colons.
BiotoolsAbyss == <<"b", "i", "o", "t", "o", "o", "l", "s", ":", "a", "b", "y", "s", "s">>
Doi123 == <<"d", "o", "i", ":", "1", "2", "3">>
TwoColons == <<"a", ":", "b", ":", "c">>

Identifiers == SeqsUpTo(IdChars, MaxLen) \cup {BiotoolsAbyss, Doi123, TwoColons}

\* A list element: a str, or an object that is no str (None, a number).
Elements == {[isstr |-> TRUE, s |-> i] : i \in Identifiers} \cup {[isstr |-> FALSE, s |-> <<>>]}

\* The arguments: a bare str, and the lists of up to two elements.
FilterArgs ==
    {[kind |-> "str", items |-> <<e>>] : e \in {x \in Elements : x.isstr}}
    \cup {[kind |-> "list", items |-> <<>>]}
    \cup {[kind |-> "list", items |-> <<e>>] : e \in Elements}
    \cup {[kind |-> "list", items |-> <<e1, e2>>] : e1 \in Elements, e2 \in Elements}

\* The index of the first ":" of s, 0 when it has none.
RECURSIVE FirstColonFrom(_, _)
FirstColonFrom(s, i) ==
    IF i > Len(s) THEN 0
    ELSE IF s[i] = ":" THEN i ELSE FirstColonFrom(s, i + 1)

\* text.split(":", 1), line 68
SplitFirstColon(s) ==
    LET k == FirstColonFrom(s, 1)
    IN  IF k = 0 THEN <<s>>
        ELSE <<SubSeq(s, 1, k - 1), SubSeq(s, k + 1, Len(s))>>

\* The format call of line 70: prefix, ": :", prefix, ":", backquote, value, backquote.
FormatExtlink(parts) ==
    parts[1] \o <<":", " ", ":">> \o parts[1] \o <<":", "BQ">> \o parts[2] \o <<"BQ">>

\* fmt, lines 66-70: the formatted identifier, or the assertion that fails
fmt(e) ==
    IF ~e.isstr THEN [ok |-> FALSE, out |-> <<>>]
    ELSE LET parts == SplitFirstColon(e.s)
         IN  IF Len(parts) # 2 THEN [ok |-> FALSE, out |-> <<>>]
             ELSE [ok |-> TRUE, out |-> FormatExtlink(parts)]

\* as_extlink_filter(text), lines 72-74
as_extlink_filter(arg) ==
    IF arg.kind # "list" THEN [ret |-> "AssertionError", items |-> <<>>]
    ELSE IF \E i \in 1..Len(arg.items) : ~fmt(arg.items[i]).ok
         THEN [ret |-> "AssertionError", items |-> <<>>]
         ELSE [ret |-> "list", items |-> [i \in 1..Len(arg.items) |-> fmt(arg.items[i]).out]]

FilterInit ==
    /\ text \in FilterArgs
    /\ extlinks = [ret |-> "Pending", items |-> <<>>]
    /\ WriterIdle
    /\ ReadmeIdle
    /\ RecipesIdle

\* One call of the filter on the argument.
ApplyFilter ==
    /\ extlinks.ret = "Pending"
    /\ extlinks' = as_extlink_filter(text)
    /\ UNCHANGED text
    /\ UNCHANGED <<wvars, rvars, gvars>>

FilterNext == ApplyFilter

SpecFilter == FilterInit /\ [][FilterNext]_vars

\* The strings the specification's example expects.
ExpectedBiotools == <<"b", "i", "o", "t", "o", "o", "l", "s", ":", " ", ":", "b", "i", "o", "t", "o", "o", "l", ":", "BQ", "a", "b", "y", "s", "s", "BQ">>
ExpectedDoi == <<"d", "o", "i", ":", " ", ":", "d", "o", "i", ":", "BQ", "1", "2", "3", "BQ">>

\* Whether the element is a str with a colon.
WellFormed(e) == e.isstr /\ \E k \in 1..Len(e.s) : e.s[k] = ":"

\* C9: as_extlink_filter maps a list of prefix:value strings element by element, in
\* order, splitting at the first colon only, to the strings of the specification's
\* example; a non-list argument, a non-string element or an element without a colon
\* is an error and gives no output.
C9_ExtlinkExample ==
    extlinks.ret # "Pending" =>
        /\ text = [kind |-> "list",
                   items |-> <<[isstr |-> TRUE, s |-> BiotoolsAbyss],
                               [isstr |-> TRUE, s |-> Doi123]>>]
           => extlinks = [ret |-> "list", items |-> <<ExpectedBiotools, ExpectedDoi>>]
        /\ (text.kind # "list" \/ \E i \in 1..Len(text.items) : ~WellFormed(text.items[i]))
           => extlinks = [ret |-> "AssertionError", items |-> <<>>]
        /\ (text.kind = "list" /\ \A i \in 1..Len(text.items) : WellFormed(text.items[i]))
           => /\ extlinks.ret = "list"
              /\ Len(extlinks.items) = Len(text.items)
              /\ \A i \in 1..Len(text.items) :
                    \E k \in 1..Len(text.items[i].s) :
                        /\ text.items[i].s[k] = ":"
                        /\ \A j \in 1..(k - 1) : text.items[i].s[j] # ":"
                        /\ Len(extlinks.items[i]) = Len(text.items[i].s) + k + 4

----
(* The channel index: bioconda_utils RepoData *)

\* The package names, in the order of their strings.
PkgNames == <<"pkg-a", "pkg-b", "pkg-c", "pkg-d", "pkg-e", "pkg-f", "pkg-g", "pkg-h",
              "pkg-i">>

NameOrder(name) == CHOOSE i \in 1..Len(PkgNames) : PkgNames[i] = name

\* The names generate_readme is explored on.
Names == {"pkg-a", "pkg-b"}

Versions == {"1.9", "1.10"}

Platforms == {"linux", "osx", "noarch"}

\* conda's VersionOrder as a rank: 1.9 sorts before 1.10.
VersionOrder(version) == IF version = "1.9" THEN 1 ELSE 2

\* The order of the version strings as str: "1.10" sorts before "1.9".
StrOrder(version) == IF version = "1.10" THEN 1 ELSE 2

\* The rows an index may hold: one per name, version, build number and platform.
Rows ==
    [name : {"pkg-a"}, version : Versions, build_number : {0, 1}, platform : Platforms]
    \cup [name : {"pkg-b"}, version : Versions, build_number : {0, 1}, platform : {"linux"}]

RECURSIVE SubsetsUpTo(_, _)
SubsetsUpTo(S, n) ==
    IF n = 0 THEN {{}}
    ELSE LET smaller == SubsetsUpTo(S, n - 1)
         IN  smaller \cup {A \cup {x} : A \in smaller, x \in S}

\* The elements of S as a list, ascending by the integer key[x] (keys differ).
SortedBy(S, key) ==
    [i \in 1..Cardinality(S) |->
        CHOOSE x \in S : Cardinality({y \in S : key[y] < key[x]}) = i - 1]

\* repodata.get_package_data(['version', 'build_number'], channels='ggd-genomics',
\* name=package) as a set, line 228
VersionBuilds(repo, package) ==
    {<<r.version, r.build_number>> : r \in {x \in repo : x.name = package}}

\* sorted(versions_in_channel, key=lambda x: (VersionOrder(x[0]), x[1])), line 230
SortedVersions(repo, package) ==
    LET S == VersionBuilds(repo, package)
    IN  SortedBy(S, [x \in S |-> VersionOrder(x[1]) * 2 + x[2]])

\* repodata.get_versions(name), line 249: version -> the platforms it is built for
GetVersions(repo, name) ==
    [v \in {r.version : r \in {x \in repo : x.name = name}} |->
        {r.platform : r \in {x \in repo : x.name = name /\ x.version = v}}]

\* The dependency strings of the index, as texts: a name and a constraint, a bare
\* name, and a name with a version and a build string.
SamtoolsGe19 == <<"s", "a", "m", "t", "o", "o", "l", "s", " ", ">", "=", "1", ".", "9">>
Samtools == <<"s", "a", "m", "t", "o", "o", "l", "s">>
PythonPinned == <<"p", "y", " ", "3", ".", "6", " ", "h", "0">>

\* The depends column of a row of the index.
DependsOf(name, version, build_number) ==
    IF name = "pkg-b" THEN <<PythonPinned>>
    ELSE IF version = "1.9"
         THEN (IF build_number = 0 THEN <<SamtoolsGe19, Samtools>> ELSE <<Samtools>>)
         ELSE (IF build_number = 0 THEN <<>> ELSE <<PythonPinned, SamtoolsGe19>>)

\* repodata.get_package_data('depends', name=package, version=..., build_number=...)[0],
\* lines 237-240
GetDepends(repo, package, pair) == DependsOf(package, pair[1], pair[2])

----
(* generate_readme *)

LinuxIcon == "fa-linux"
AppleIcon == "fa-apple"
DesktopIcon == "fa-desktop"
DotIcon == "fa-dot-circle-o"

\* The about section of a meta.yaml: whether it holds the identifiers mapping, the
\* species and genome-build keys in it, the tags mapping and the ggd-channel key in
\* it. An about section that is missing altogether holds none of them.
FullAbout ==
    [has_identifiers |-> TRUE, has_species |-> TRUE, has_genome_build |-> TRUE,
     has_tags |-> TRUE, has_channel |-> TRUE]

Abouts ==
    {FullAbout,
     [FullAbout EXCEPT !.has_species = FALSE, !.has_genome_build = FALSE,
                       !.has_channel = FALSE],
     [FullAbout EXCEPT !.has_identifiers = FALSE, !.has_species = FALSE,
                       !.has_genome_build = FALSE],
     [FullAbout EXCEPT !.has_tags = FALSE, !.has_channel = FALSE],
     [has_identifiers |-> FALSE, has_species |-> FALSE, has_genome_build |-> FALSE,
      has_tags |-> FALSE, has_channel |-> FALSE]}

\* The values the keys of the about sections hold, and the empty dict.
Species == "Homo_sapiens"
GenomeBuild == "hg19"
GgdChannel == "proteomics"
EmptyMapping == "{}"

\* A meta.yaml: whether conda_build's MetaData parses it, whether bioconda_utils'
\* Recipe.from_file accepts it, its package name and version, its further outputs,
\* its about section.
Unparsable ==
    [parses |-> FALSE, recipe_ok |-> FALSE, name |-> "pkg-a", version |-> "1.9",
     outputs |-> {}, about |-> FullAbout]

GoodMeta == [parses |-> TRUE, recipe_ok |-> TRUE, name |-> "pkg-a", version |-> "1.9",
             outputs |-> {}, about |-> FullAbout]

MetaFiles ==
    {[parses |-> TRUE, recipe_ok |-> r, name |-> n, version |-> "1.9", outputs |-> o,
      about |-> FullAbout] : r \in BOOLEAN, n \in Names, o \in {{}, Names}}
    \cup {[GoodMeta EXCEPT !.about = a] : a \in Abouts}
    \cup {Unparsable}

\* An entry of os.listdir of the folder.
Entry(name, isdir, has_meta, meta) ==
    [name |-> name, isdir |-> isdir, has_meta |-> has_meta, meta |-> meta]

\* The recipe folders: with a meta.yaml of their own, or with none and these entries.
Folders ==
    {[has_meta |-> TRUE, meta |-> m, entries |-> <<>>] : m \in MetaFiles}
    \cup {[has_meta |-> FALSE, meta |-> Unparsable, entries |-> e] : e \in
            {<<>>,
             <<Entry("notes.txt", FALSE, FALSE, Unparsable)>>,
             <<Entry("1.9", TRUE, TRUE, GoodMeta)>>,
             <<Entry("1.9", TRUE, TRUE, Unparsable)>>,
             <<Entry("1.9", TRUE, FALSE, Unparsable)>>,
             <<Entry("1.9", TRUE, FALSE, Unparsable), Entry("1.10", TRUE, TRUE, GoodMeta)>>,
             <<Entry("src", TRUE, FALSE, Unparsable), Entry("1.9", TRUE, TRUE, GoodMeta)>>}}

\* LooseVersion(sf), line 178: distutils' LooseVersion takes any string.
LooseVersionRaises(sf) == FALSE

\* Lines 172-183: the names of the subfolders that pass LooseVersion.
RECURSIVE VersionFolders(_)
VersionFolders(entries) ==
    IF entries = <<>> THEN <<>>
    ELSE LET sf == Head(entries)
         IN  IF sf.isdir /\ ~LooseVersionRaises(sf.name)
             THEN <<sf>> \o VersionFolders(Tail(entries))
             ELSE VersionFolders(Tail(entries))

\* Lines 172-183: the strings LooseVersion was called on and returned for.
Parsed(entries) ==
    {entries[k].name : k \in {j \in 1..Len(entries) :
                                entries[j].isdir /\ ~LooseVersionRaises(entries[j].name)}}

\* Lines 172-191: the versions list. The names of the subfolders kept, with the
\* version of the folder's own meta.yaml put in front when it is not among them.
VersionCandidates(f) ==
    LET kept == VersionFolders(f.entries)
        names == [k \in 1..Len(kept) |-> kept[k].name]
    IN  IF f.has_meta /\ f.meta.parses
             /\ \A k \in 1..Len(names) : names[k] # f.meta.version
        THEN <<f.meta.version>> \o names
        ELSE names

\* Lines 207-213: the first subfolder of the listing that holds a meta.yaml.
RECURSIVE FirstWithMeta(_)
FirstWithMeta(entries) ==
    IF entries = <<>> THEN <<>>
    ELSE IF Head(entries).isdir /\ Head(entries).has_meta THEN <<Head(entries)>>
         ELSE FirstWithMeta(Tail(entries))

\* recipe_object.package_names, sorted, line 227: the name, then the outputs.
PackageNames(meta) ==
    LET S == {meta.name} \cup meta.outputs
    IN  SortedBy(S, [n \in S |-> NameOrder(n)])

\* Lines 227-232: sorted_versions as the loop over the package names leaves it.
LoopSortedVersions(repo, recipe_meta) ==
    LET packages == PackageNames(recipe_meta)
    IN  SortedVersions(repo, packages[Len(packages)])

\* The index of the first " " of s at or after i, 0 when there is none.
RECURSIVE FirstSpaceFrom(_, _)
FirstSpaceFrom(s, i) ==
    IF i > Len(s) THEN 0
    ELSE IF s[i] = " " THEN i ELSE FirstSpaceFrom(s, i + 1)

\* Line 235: depstring.split(' ', 1) if ' ' in depstring else (depstring, '')
SplitDepstringAtLast(depstring) ==
    IF FirstSpaceFrom(depstring, 1) = 0 THEN <<depstring, <<>>>>
    ELSE LET k == CHOOSE i \in 1..Len(depstring) :
                      /\ depstring[i] = " "
                      /\ \A j \in (i + 1)..Len(depstring) : depstring[j] # " "
         IN  <<SubSeq(depstring, 1, k - 1), SubSeq(depstring, k + 1, Len(depstring))>>

SplitDepstring(depstring) ==
    LET k == FirstSpaceFrom(depstring, 1)
    IN  IF k = 0 THEN <<depstring, <<>>>>
        ELSE <<SubSeq(depstring, 1, k - 1), SubSeq(depstring, k + 1, Len(depstring))>>

\* Lines 233-243: depends for one package name.
Depends(repo, package) ==
    LET sorted_versions == SortedVersions(repo, package)
    IN  IF sorted_versions # <<>>
        THEN LET depstrings == GetDepends(repo, package, sorted_versions[1])
             IN  [k \in 1..Len(depstrings) |-> SplitDepstring(depstrings[k])]
        ELSE <<>>

\* Lines 227-243: depends as the loop over the package names leaves it.
LoopDepends(repo, recipe_meta) ==
    LET packages == PackageNames(recipe_meta)
    IN  Depends(repo, packages[Len(packages)])

\* Lines 254-256: metadata.get_section('about')["identifiers"] and ["tags"] are
\* indexed before the test for the key in them; a missing mapping is a KeyError.
AboutKeyError(metadata) ==
    ~metadata.about.has_identifiers \/ ~metadata.about.has_tags

\* Lines 251-262: template_options.
TemplateOptions(metadata, sorted_versions) ==
    [name |-> metadata.name,
     species |-> IF metadata.about.has_species THEN Species ELSE EmptyMapping,
     genome_build |-> IF metadata.about.has_genome_build THEN GenomeBuild
                      ELSE EmptyMapping,
     ggd_channel |-> IF metadata.about.has_channel THEN GgdChannel ELSE "genomics",
     versions |-> sorted_versions,
     Package |-> metadata.name]

\* dict.update: the keys of u set in t.
Update(t, u) ==
    [k \in DOMAIN t \cup DOMAIN u |-> IF k \in DOMAIN u THEN u[k] ELSE t[k]]

\* Lines 273-288: the platform markers of one version of the channel.
PlatformMarkersDotAlways(version_info) ==
    IF "noarch" \in version_info
    THEN [Linux |-> DotIcon, OSX |-> DotIcon, NOARCH |-> DesktopIcon]
    ELSE [Linux |-> IF "linux" \in version_info THEN LinuxIcon ELSE "",
          OSX |-> IF "osx" \in version_info THEN AppleIcon ELSE "",
          NOARCH |-> ""]

PlatformMarkers(version_info) ==
    IF "noarch" \in version_info
    THEN [Linux |-> IF "linux" \in version_info THEN LinuxIcon ELSE DotIcon,
          OSX |-> IF "osx" \in version_info THEN AppleIcon ELSE DotIcon,
          NOARCH |-> IF "noarch" \in version_info THEN DesktopIcon ELSE ""]
    ELSE [Linux |-> IF "linux" \in version_info THEN LinuxIcon ELSE "",
          OSX |-> IF "osx" \in version_info THEN AppleIcon ELSE "",
          NOARCH |-> IF "noarch" \in version_info THEN DesktopIcon ELSE ""]

\* sorted(versions_in_channel.items()), line 271: by the version string
SortedItemsButLast(versions_in_channel) ==
    LET all == SortedBy(DOMAIN versions_in_channel,
                        [v \in DOMAIN versions_in_channel |-> StrOrder(v)])
    IN  SubSeq(all, 1, Len(all) - 1)

SortedItems(versions_in_channel) ==
    SortedBy(DOMAIN versions_in_channel, [v \in DOMAIN versions_in_channel |-> StrOrder(v)])

\* The dicts of a call live in a heap, a list of dicts; a reference to a dict is
\* its index. template_options is the first dict of the heap.

\* Line 272: t = template_options.copy(), a new dict with the same keys and values.
NoCopy(heap, ref) == [heap |-> heap, ref |-> ref]

CopyDict(heap, ref) == [heap |-> Append(heap, heap[ref]), ref |-> Len(heap) + 1]

\* Lines 271-289: the loop from the i-th item on. Each turn copies template_options,
\* updates the copy t and appends t, a reference, to recipes.
RECURSIVE ContextLoop(_, _, _, _, _, _)
ContextLoop(heap, refs, items, i, versions_in_channel, latest_version) ==
    IF i > Len(items) THEN [heap |-> heap, recipes |-> refs]
    ELSE LET t == CopyDict(heap, 1)
             updated == Update(Update(t.heap[t.ref],
                                      PlatformMarkers(versions_in_channel[items[i]])),
                               [Version |-> latest_version])
         IN  ContextLoop([t.heap EXCEPT ![t.ref] = updated], Append(refs, t.ref),
                         items, i + 1, versions_in_channel, latest_version)

\* Lines 269-290: the list returned, one dict per version of the channel, as the
\* caller finds them.
Contexts(template_options, versions_in_channel, latest_version) ==
    LET end == ContextLoop(<<template_options>>, <<>>, SortedItems(versions_in_channel),
                           1, versions_in_channel, latest_version)
    IN  [i \in 1..Len(end.recipes) |-> end.heap[end.recipes[i]]]

\* Lines 269-290: template_options as the loop leaves it.
OptionsAfter(template_options, versions_in_channel, latest_version) ==
    ContextLoop(<<template_options>>, <<>>, SortedItems(versions_in_channel),
                1, versions_in_channel, latest_version).heap[1]

\* The outcome of a call: what it returned or raised, the pages it rendered, what it
\* logged, and the values its local names versions, depends and template_options
\* ended with.
Returned(contexts, readme, log) ==
    [ret |-> "list", recipes |-> contexts, readme |-> readme, log |-> log,
     versions |-> <<>>, parsed |-> {}, depends |-> <<>>, options |-> <<>>]

Raised(exc, readme, log) ==
    [ret |-> exc, recipes |-> <<>>, readme |-> readme, log |-> log,
     versions |-> <<>>, parsed |-> {}, depends |-> <<>>, options |-> <<>>]

\* Lines 247-290, with the loop over the package names done.
RenderReadme(repo, metadata, recipe_meta, log) ==
    LET sorted_versions == LoopSortedVersions(repo, recipe_meta)
        versions_in_channel == GetVersions(repo, metadata.name)
        template_options == TemplateOptions(metadata, sorted_versions)
    IN  IF AboutKeyError(metadata)
        THEN Raised("KeyError", <<>>, log)
        ELSE IF sorted_versions = <<>>
        THEN Raised("IndexError", <<template_options>>, log)
        ELSE [Returned(Contexts(template_options, versions_in_channel,
                                sorted_versions[Len(sorted_versions)]),
                       <<template_options>>, log)
                 EXCEPT !.options = <<OptionsAfter(template_options, versions_in_channel,
                                                   sorted_versions[Len(sorted_versions)])>>]

\* Lines 226-290, with the metadata read and the recipe loaded.
FormatReadme(repo, metadata, recipe_meta, log) ==
    [RenderReadme(repo, metadata, recipe_meta, log)
        EXCEPT !.depends = LoopDepends(repo, recipe_meta)]

\* Lines 203-224, with the metadata read: the meta.yaml the recipe is loaded from.
LoadRecipe(f, repo, metadata, log) ==
    LET found == IF f.has_meta THEN <<f.meta>>
                 ELSE IF FirstWithMeta(f.entries) = <<>> THEN <<>>
                      ELSE <<FirstWithMeta(f.entries)[1].meta>>
    IN  IF found = <<>>
        THEN Returned(<<>>, <<>>, Append(log, "No 'meta.yaml' found"))
        ELSE IF ~found[1].recipe_ok
             THEN Returned(<<>>, <<>>, Append(log, "Unable to process"))
             ELSE FormatReadme(repo, metadata, found[1], log)

\* Lines 199-201: the handler of UnableToParse.
ParseFailure(log) == Raised("UnableToParse", <<>>, Append(log, "Failed to parse recipe"))

\* Lines 185-201: the metadata is read from the folder's meta.yaml, else from the
\* one of versions[0], and the call goes on with it.
ReadMetadata(f, repo) ==
    LET versions == VersionFolders(f.entries)
    IN  IF f.has_meta
        THEN IF ~f.meta.parses THEN ParseFailure(<<>>)
             ELSE LoadRecipe(f, repo, f.meta, <<>>)
        ELSE IF versions # <<>>
             THEN IF ~versions[1].has_meta THEN Raised("IOError", <<>>, <<>>)
                  ELSE IF ~versions[1].meta.parses THEN ParseFailure(<<>>)
                       ELSE LoadRecipe(f, repo, versions[1].meta, <<>>)
             ELSE Returned(<<>>, <<>>, <<>>)

\* generate_readme(folder, repodata, renderer)
generate_readme(f, repo) ==
    [ReadMetadata(f, repo) EXCEPT !.versions = VersionCandidates(f),
                                  !.parsed = Parsed(f.entries)]

Pending == [ret |-> "Pending", recipes |-> <<>>, readme |-> <<>>, log |-> <<>>,
            versions |-> <<>>, parsed |-> {}, depends |-> <<>>, options |-> <<>>]

ReadmeInit ==
    /\ folder \in Folders
    /\ repodata \in SubsetsUpTo(Rows, MaxRows)
    /\ result = Pending
    /\ WriterIdle
    /\ FilterIdle
    /\ RecipesIdle

\* One call of generate_readme on the folder.
GenerateReadme ==
    /\ result = Pending
    /\ result' = generate_readme(folder, repodata)
    /\ UNCHANGED <<folder, repodata>>
    /\ UNCHANGED <<wvars, fvars, gvars>>

ReadmeNext == GenerateReadme

SpecReadme == ReadmeInit /\ [][ReadmeNext]_vars

\* The platform tags the index holds for a version of a package.
TagsOf(name, version) ==
    {r.platform : r \in {x \in repodata : x.name = name /\ x.version = version}}

\* The version the i-th context of a package stands for: the versions of the index
\* in the order of their strings.
VersionAt(name, i) ==
    LET vs == {r.version : r \in {x \in repodata : x.name = name}}
    IN  IF vs = Versions THEN (IF i = 1 THEN "1.10" ELSE "1.9")
        ELSE CHOOSE v \in vs : TRUE

\* The tags of the version the i-th returned context stands for.
TagsAt(i) == TagsOf(result.recipes[i].name, VersionAt(result.recipes[i].name, i))

Latest(name) ==
    CHOOSE x \in VersionBuilds(repodata, name) :
        \A y \in VersionBuilds(repodata, name) :
            \/ VersionOrder(y[1]) < VersionOrder(x[1])
            \/ (y[1] = x[1] /\ y[2] <= x[2])

\* C8: every context of one generate_readme call carries the same Version, the
\* newest (version, build number) pair of the package the contexts are built for,
\* also when the recipe declares several package names.
C8_VersionIsLatestOfPackage ==
    result.ret = "list" =>
        \A i \in 1..Len(result.recipes) :
            /\ result.recipes[i].Version = result.recipes[1].Version
            /\ result.recipes[i].Version = Latest(result.recipes[i].name)

\* Whether a name has the shape of a version number.
VersionShaped(name) == name \in Versions

\* C11: every entry of the versions list of generate_readme is a valid version that
\* went through the version parse: a subfolder whose name is no version is
\* discarded, and neither a subfolder name nor the version of the meta.yaml is added
\* without the parse.
C11_CandidatesAllParsed ==
    result.ret # "Pending" =>
        \A k \in 1..Len(result.versions) :
            /\ VersionShaped(result.versions[k])
            /\ result.versions[k] \in result.parsed

\* The package the returned contexts are built for: metadata.name().
BuiltFor == result.readme[1].name

\* The versions the index holds for a package.
VersionsOf(name) == {r.version : r \in {x \in repodata : x.name = name}}

\* C13 as claimed: generate_readme returns one context per (version, build number)
\* pair the index holds for the package, so a version with two build numbers gives
\* two contexts.
C13_OneContextPerVersionBuild ==
    (result.ret = "list" /\ result.readme # <<>>) =>
        Len(result.recipes) = Cardinality(VersionBuilds(repodata, BuiltFor))

\* C13 amended: generate_readme returns one context per distinct version the index
\* holds for the package, whatever the number of builds of a version.
C13_OneContextPerVersion ==
    (result.ret = "list" /\ result.readme # <<>>) =>
        Len(result.recipes) = Cardinality(VersionsOf(BuiltFor))

\* C13's case: contexts were returned for a package of which the index holds a
\* version with two build numbers, and another version.
C13_Witness ==
    /\ result.ret = "list"
    /\ result.readme # <<>>
    /\ Len(result.recipes) = 2
    /\ Cardinality(VersionBuilds(repodata, BuiltFor)) = 3

\* The meta.yaml the metadata of the call is read from, as a list of one, or the
\* empty list when the call reads none.
MetadataSource ==
    IF folder.has_meta THEN <<folder.meta>>
    ELSE IF VersionFolders(folder.entries) = <<>> THEN <<>>
         ELSE IF ~VersionFolders(folder.entries)[1].has_meta THEN <<>>
              ELSE <<VersionFolders(folder.entries)[1].meta>>

\* C14: the defaults of the context never fail. Without a species or genome-build
\* identifier, or without the identifiers mapping, species and genome_build are the
\* empty mapping; without a channel tag, or without the tags mapping, ggd_channel is
\* "genomics"; generate_readme raises in none of these cases.
C14_DefaultsNeverFail ==
    (result.ret # "Pending" /\ MetadataSource # <<>>) =>
        LET about == MetadataSource[1].about
        IN  /\ result.ret # "KeyError"
            /\ \A i \in 1..Len(result.recipes) :
                  /\ ~(about.has_identifiers /\ about.has_species)
                     => result.recipes[i].species = EmptyMapping
                  /\ ~(about.has_identifiers /\ about.has_genome_build)
                     => result.recipes[i].genome_build = EmptyMapping
                  /\ ~(about.has_tags /\ about.has_channel)
                     => result.recipes[i].ggd_channel = "genomics"

\* C15: the metadata is read from the meta.yaml of the folder when it has one, else
\* from the one of the first version subfolder; a folder with neither gives an
\* empty list, with no error and no detail page written.
C15_MetadataSourceOrEmpty ==
    result.ret # "Pending" =>
        /\ MetadataSource = <<>>
           => (result.ret = "list" /\ result.recipes = <<>> /\ result.readme = <<>>)
        /\ result.readme # <<>>
           => (MetadataSource # <<>> /\ BuiltFor = MetadataSource[1].name)

\* The call got as far as the loop over the package names.
ReachedFormat == result.ret \in {"KeyError", "IndexError"} \/ result.readme # <<>>

\* The meta.yaml the recipe object is loaded from.
RecipeSource ==
    IF folder.has_meta THEN folder.meta ELSE FirstWithMeta(folder.entries)[1].meta

\* The package name the loop over the package names ends on.
LoopPackage == PackageNames(RecipeSource)[Len(PackageNames(RecipeSource))]

\* The earliest (version, build number) pair the index holds for a package.
Earliest(name) ==
    CHOOSE x \in VersionBuilds(repodata, name) :
        \A y \in VersionBuilds(repodata, name) :
            \/ VersionOrder(x[1]) < VersionOrder(y[1])
            \/ (x[1] = y[1] /\ x[2] <= y[2])

\* The whitespace of the dependency strings of an index: conda writes a dependency
\* as name, version and build separated by single spaces.
Whitespace == {" "}

\* The (name, constraint) pair of a dependency string: the text before and the text
\* after its first whitespace character, or the string and the empty text.
ExpectedPair(depstring) ==
    IF \A k \in 1..Len(depstring) : depstring[k] \notin Whitespace
    THEN <<depstring, <<>>>>
    ELSE LET k == CHOOSE i \in 1..Len(depstring) :
                      /\ depstring[i] \in Whitespace
                      /\ \A j \in 1..(i - 1) : depstring[j] \notin Whitespace
         IN  <<SubSeq(depstring, 1, k - 1), SubSeq(depstring, k + 1, Len(depstring))>>

\* C16: every dependency string of the earliest (version, build number) pair is
\* split at its first whitespace character into (name, constraint), and a string
\* with no whitespace gives (string, ""): "samtools >=1.9" gives
\* ("samtools", ">=1.9") and "samtools" gives ("samtools", "").
C16_DependsSplitAtFirstSpace ==
    (result.ret # "Pending" /\ ReachedFormat) =>
        IF VersionBuilds(repodata, LoopPackage) = {}
        THEN result.depends = <<>>
        ELSE LET depstrings == DependsOf(LoopPackage, Earliest(LoopPackage)[1],
                                         Earliest(LoopPackage)[2])
             IN  /\ Len(result.depends) = Len(depstrings)
                 /\ \A k \in 1..Len(depstrings) :
                       /\ result.depends[k] = ExpectedPair(depstrings[k])
                       /\ depstrings[k] = SamtoolsGe19
                          => result.depends[k] = <<Samtools, <<">", "=", "1", ".", "9">>>>
                       /\ depstrings[k] = Samtools
                          => result.depends[k] = <<Samtools, <<>>>>

\* C16's case: the earliest pair has the dependency strings "samtools >=1.9" and
\* "samtools", and both were parsed.
C16_Witness ==
    /\ result.ret # "Pending"
    /\ ReachedFormat
    /\ result.depends = <<<<Samtools, <<">", "=", "1", ".", "9">>>>, <<Samtools, <<>>>>>>

\* C17: the context the detail page of a package is rendered from holds the
\* dependency pairs of the earliest (version, build number) pair.
C17_ReadmeHoldsDepends ==
    (result.ret # "Pending" /\ result.readme # <<>>) =>
        /\ "depends" \in DOMAIN result.readme[1]
        /\ result.readme[1].depends = result.depends

\* C20: every context appended is a copy of its own of template_options. Setting
\* Linux, OSX, NOARCH and Version for one version of the channel leaves the
\* contexts appended before with the markers of their own version, and leaves the
\* options the detail page was rendered from as they were.
C20_ContextsIndependent ==
    (result.ret = "list" /\ result.readme # <<>>) =>
        /\ result.options = result.readme
        /\ \A k \in {"Linux", "OSX", "NOARCH", "Version"} :
              k \notin DOMAIN result.options[1]
        /\ \A i \in 1..Len(result.recipes) :
              /\ result.recipes[i].Linux = PlatformMarkers(TagsAt(i)).Linux
              /\ result.recipes[i].OSX = PlatformMarkers(TagsAt(i)).OSX
              /\ result.recipes[i].NOARCH = PlatformMarkers(TagsAt(i)).NOARCH

\* C20's case: two contexts were returned, for two versions whose markers differ.
C20_Witness ==
    /\ result.ret = "list"
    /\ Len(result.recipes) = 2
    /\ result.recipes[1].Linux # result.recipes[2].Linux
    /\ result.recipes[1].NOARCH # result.recipes[2].NOARCH

----
(* generate_recipes *)

\* Line 312: more recipe directories than this are needed for the parallel branch.
Threshold == 5

\* What a recipe directory holds: a recipe that parses and is published, a meta.yaml
\* MetaData cannot parse, one Recipe.from_file rejects, a recipe of a package the
\* channel does not hold, or the recipe of a version subfolder of the directory
\* walked before it, declaring the same package.
DirKinds == {"ok", "unparsable", "recipe_error", "unpublished", "subfolder"}

\* Lines 306-309: n directories, the one at bad (if any) of the given kind, the
\* others each of a package of its own. os.walk is top-down: a version subfolder
\* comes after the package folder it lies in.
WalkResult(n, bad, kind) ==
    [i \in 1..n |->
        [pkg |-> IF i = bad /\ kind = "subfolder" /\ i > 1 THEN PkgNames[i - 1]
                 ELSE PkgNames[i],
         kind |-> IF i = bad THEN kind ELSE "ok",
         sub |-> i + 1 = bad /\ kind = "subfolder" /\ bad <= n]]

DirLists ==
    {WalkResult(n, bad, kind) : n \in 0..MaxDirs, bad \in 0..MaxDirs,
                                kind \in DirKinds \ {"ok"}}

\* The folder of a recipe directory, as generate_readme reads it.
FolderOfDir(d) ==
    LET meta == IF d.kind = "unparsable" THEN Unparsable
                ELSE [parses |-> TRUE, recipe_ok |-> d.kind # "recipe_error",
                      name |-> d.pkg, version |-> "1.9", outputs |-> {},
                      about |-> FullAbout]
    IN  [has_meta |-> TRUE,
         meta |-> meta,
         entries |-> IF d.sub THEN <<Entry("1.9", TRUE, TRUE, meta)>> ELSE <<>>]

\* Line 301: the index of the run. Every published package has version 1.9; every
\* other one also has a noarch version 1.10.
RunIndex(dirlist) ==
    LET published == {dirlist[i].pkg : i \in {j \in 1..Len(dirlist) :
                                                dirlist[j].kind # "unpublished"}}
    IN  {[name |-> n, version |-> "1.9", build_number |-> 0, platform |-> "linux"] :
            n \in published}
        \cup {[name |-> n, version |-> "1.10", build_number |-> 0, platform |-> "noarch"] :
                n \in {m \in published : NameOrder(m) % 2 = 1}}

\* generate_readme(folder, repodata, renderer) on the i-th recipe directory
ReadmeOf(i) == generate_readme(FolderOfDir(recipe_dirs[i]), RunIndex(recipe_dirs))

\* The packages whose README.rst the call wrote.
PagesOf(r) == {r.readme[k].name : k \in 1..Len(r.readme)}

\* Lines 312-315
NprocAtThreshold(a, ndirs) ==
    IF a.available /\ ndirs >= Threshold THEN a.parallel ELSE 1

Nproc(a, ndirs) ==
    IF a.available /\ ndirs > Threshold THEN a.parallel ELSE 1

\* int(sqrt(x)) for a natural x
ISqrt(x) == CHOOSE r \in 0..x : r * r <= x /\ (r + 1) * (r + 1) > x

\* sphinx.util.parallel.make_chunks(arguments, nproc), maxbatch = 10, line 325:
\* contiguous slices of nargs // nproc arguments, here as indices into recipe_dirs.
make_chunks(nargs, np) ==
    LET c0 == nargs \div np
        c1 == IF c0 >= 10 THEN ISqrt((nargs * 10) \div np) ELSE c0
        chunksize == IF c1 = 0 THEN 1 ELSE c1
        nchunks == (nargs + chunksize - 1) \div chunksize
    IN  [k \in 1..nchunks |->
            [j \in 1..(IF k * chunksize <= nargs THEN chunksize
                       ELSE nargs - (k - 1) * chunksize) |-> (k - 1) * chunksize + j]]

NotSent == [sent |-> FALSE, exc |-> FALSE, res |-> <<>>]

\* Lines 299-309: the state before line 312.
RecipesInit ==
    /\ app \in [parallel : 1..MaxProc, available : BOOLEAN]
    /\ recipe_dirs \in DirLists
    /\ pc = "start"
    /\ mode = "none"
    /\ nproc = 0
    /\ next = 1
    /\ recipes = <<>>
    /\ chunks = <<>>
    /\ waiting = <<>>
    /\ running = <<>>
    /\ pipe = <<>>
    /\ wpos = <<>>
    /\ acc = <<>>
    /\ merged = <<>>
    /\ index = <<>>
    /\ pages = {}
    /\ WriterIdle
    /\ FilterIdle
    /\ ReadmeIdle

\* Lines 312-317 and 324-325
ChooseMode ==
    /\ pc = "start"
    /\ nproc' = Nproc(app, Len(recipe_dirs))
    /\ IF nproc' = 1
       THEN /\ mode' = "serial"
            /\ pc' = "serial"
            /\ UNCHANGED <<chunks, pipe, wpos, acc>>
       ELSE /\ mode' = "parallel"
            /\ pc' = "dispatch"
            /\ chunks' = make_chunks(Len(recipe_dirs), nproc')
            /\ pipe' = [t \in 1..Len(chunks') |-> NotSent]
            /\ wpos' = [t \in 1..Len(chunks') |-> 1]
            /\ acc' = [t \in 1..Len(chunks') |-> <<>>]
    /\ UNCHANGED <<app, recipe_dirs, next, recipes, waiting, running, merged, index, pages>>
    /\ UNCHANGED <<wvars, fvars, rvars>>

\* Lines 318-322: one turn of the serial loop.
SerialStep ==
    /\ pc = "serial"
    /\ next <= Len(recipe_dirs)
    /\ LET r == ReadmeOf(next)
       IN  /\ pages' = pages \cup PagesOf(r)
           /\ IF r.ret = "list"
              THEN /\ recipes' = recipes \o r.recipes
                   /\ next' = next + 1
                   /\ pc' = pc
              ELSE /\ pc' = "aborted"
                   /\ UNCHANGED <<recipes, next>>
    /\ UNCHANGED <<app, recipe_dirs, mode, nproc, chunks, waiting, running, pipe, wpos,
                   acc, merged, index>>
    /\ UNCHANGED <<wvars, fvars, rvars>>

\* The first running task, oldest first, whose pipe holds a message.
RECURSIVE FirstReady(_)
FirstReady(run) ==
    IF run = <<>> THEN <<>>
    ELSE IF pipe[Head(run)].sent THEN <<Head(run)>>
         ELSE FirstReady(Tail(run))

\* The while loop of ParallelTasks._join_one: the tasks added last start first
\* (dict.popitem), as long as fewer than nproc run.
RECURSIVE StartWaiting(_, _)
StartWaiting(wait, run) ==
    IF wait # <<>> /\ Len(run) < nproc
    THEN StartWaiting(SubSeq(wait, 1, Len(wait) - 1), Append(run, wait[Len(wait)]))
    ELSE [waiting |-> wait, running |-> run]

\* merge_chunk(chunk, res), lines 333-334
MergeChunkTwice(chunk, res) == recipes \o res \o res

merge_chunk(chunk, res) == recipes \o res

\* ParallelTasks._join_one with the tasks in wait not started: the result of the
\* first task found finished is handed to merge_chunk, or its exception is raised
\* as SphinxParallelError; then waiting tasks start.
JoinOne(wait, pcAfter) ==
    LET ready == FirstReady(running)
    IN  IF ready # <<>> /\ pipe[ready[1]].exc
        THEN /\ pc' = "aborted"
             /\ waiting' = wait
             /\ UNCHANGED <<running, recipes, merged>>
        ELSE LET left == IF ready = <<>> THEN running
                         ELSE SelectSeq(running, LAMBDA t : t # ready[1])
                 started == StartWaiting(wait, left)
             IN  /\ recipes' = IF ready = <<>> THEN recipes
                               ELSE merge_chunk(chunks[ready[1]], pipe[ready[1]].res)
                 /\ merged' = IF ready = <<>> THEN merged ELSE Append(merged, ready[1])
                 /\ waiting' = started.waiting
                 /\ running' = started.running
                 /\ pc' = pcAfter

\* Lines 337-341: tasks.add_task(process_chunk, chunk, merge_chunk) for the next
\* chunk; add_task ends with a _join_one.
AddTask ==
    /\ pc = "dispatch"
    /\ next <= Len(chunks)
    /\ JoinOne(Append(waiting, next), IF next = Len(chunks) THEN "join" ELSE "dispatch")
    /\ next' = next + 1
    /\ UNCHANGED <<app, recipe_dirs, mode, nproc, chunks, pipe, wpos, acc, index, pages>>
    /\ UNCHANGED <<wvars, fvars, rvars>>

\* Line 343: one turn of the loop of tasks.join() that finds a finished task.
Join ==
    /\ pc = "join"
    /\ Len(running) > 0
    /\ FirstReady(running) # <<>>
    /\ JoinOne(waiting, "join")
    /\ UNCHANGED <<app, recipe_dirs, mode, nproc, next, chunks, pipe, wpos, acc, index,
                   pages>>
    /\ UNCHANGED <<wvars, fvars, rvars>>

\* Lines 327-331 in the process of task t: one turn of the loop of process_chunk. An
\* exception ends the process, which sends it to the caller.
ProcessChunkStep(t) ==
    /\ t \in {running[k] : k \in 1..Len(running)}
    /\ ~pipe[t].sent
    /\ wpos[t] <= Len(chunks[t])
    /\ LET r == ReadmeOf(chunks[t][wpos[t]])
       IN  /\ pages' = pages \cup PagesOf(r)
           /\ IF r.ret = "list"
              THEN /\ acc' = [acc EXCEPT ![t] = @ \o r.recipes]
                   /\ wpos' = [wpos EXCEPT ![t] = @ + 1]
                   /\ pipe' = pipe
              ELSE /\ pipe' = [pipe EXCEPT ![t] = [sent |-> TRUE, exc |-> TRUE,
                                                  res |-> <<>>]]
                   /\ UNCHANGED <<acc, wpos>>
    /\ UNCHANGED <<app, recipe_dirs, pc, mode, nproc, next, recipes, chunks, waiting,
                   running, merged, index>>
    /\ UNCHANGED <<wvars, fvars, rvars>>

\* Line 331 in the process of task t: process_chunk returns _recipes, which the
\* process sends to the caller.
ProcessChunkReturn(t) ==
    /\ t \in {running[k] : k \in 1..Len(running)}
    /\ ~pipe[t].sent
    /\ wpos[t] > Len(chunks[t])
    /\ pipe' = [pipe EXCEPT ![t] = [sent |-> TRUE, exc |-> FALSE, res |-> acc[t]]]
    /\ UNCHANGED <<app, recipe_dirs, pc, mode, nproc, next, recipes, chunks, waiting,
                   running, wpos, acc, merged, index, pages>>
    /\ UNCHANGED <<wvars, fvars, rvars>>

\* Line 343: tasks.join() returns once no task is running.
JoinSkipped == TRUE

Joined == Len(running) = 0

\* Lines 345-355: the index page is rendered from the recipes list.
RenderIndex ==
    /\ \/ pc = "serial" /\ next > Len(recipe_dirs)
       \/ pc = "join" /\ Joined
    /\ index' = <<recipes>>
    /\ pc' = "done"
    /\ UNCHANGED <<app, recipe_dirs, mode, nproc, next, recipes, chunks, waiting, running,
                   pipe, wpos, acc, merged, pages>>
    /\ UNCHANGED <<wvars, fvars, rvars>>

RecipesNext ==
    \/ ChooseMode
    \/ SerialStep
    \/ AddTask
    \/ Join
    \/ \E t \in 1..Len(chunks) : ProcessChunkStep(t)
    \/ \E t \in 1..Len(chunks) : ProcessChunkReturn(t)
    \/ RenderIndex

SpecRecipes == RecipesInit /\ [][RecipesNext]_vars

\* The records of the first n recipe directories, in the order of the walk.
RECURSIVE SerialRecipes(_)
SerialRecipes(n) ==
    IF n = 0 THEN <<>> ELSE SerialRecipes(n - 1) \o ReadmeOf(n).recipes

\* The elements of a list.
Range(list) == {list[k] : k \in 1..Len(list)}

\* C2: in parallel mode merge_chunk is called for the chunks in the order they were
\* dispatched with add_task, whatever the order the tasks finish in.
C2_MergedInDispatchOrder ==
    \A i \in 1..Len(merged) : \A j \in 1..Len(merged) :
        i < j => merged[i] < merged[j]

\* C3: the list the index page is rendered from in parallel mode is, record for
\* record and in the same order, the list serial mode builds from the same recipe
\* directories, on every run.
C3_ParallelEqualsSerial ==
    (index # <<>> /\ mode = "parallel") => index[1] = SerialRecipes(Len(recipe_dirs))

\* C4: a recipe directory whose meta.yaml cannot be parsed never aborts the run: the
\* run goes on over the remaining directories, and the index page is rendered from
\* exactly the records of the other directories.
C4_ParseFailureNeverAborts ==
    (\A i \in 1..Len(recipe_dirs) : recipe_dirs[i].kind # "unpublished")
    => /\ pc # "aborted"
       /\ index # <<>>
          => Range(index[1])
               = UNION {Range(ReadmeOf(i).recipes) :
                          i \in {j \in 1..Len(recipe_dirs) : recipe_dirs[j].kind = "ok"}}

\* C5: in parallel mode the index page is rendered only once every dispatched chunk
\* has finished and has been merged: the list rendered holds the result of every
\* chunk, each merged once.
C5_IndexAfterAllMerged ==
    (index # <<>> /\ mode = "parallel")
    => /\ \A t \in 1..Len(chunks) :
            /\ pipe[t].sent /\ ~pipe[t].exc
            /\ Cardinality({k \in 1..Len(merged) : merged[k] = t}) = 1
            /\ Range(pipe[t].res) \subseteq Range(index[1])
            /\ \A k \in 1..Len(chunks[t]) :
                  Range(ReadmeOf(chunks[t][k]).recipes) \subseteq Range(index[1])
       /\ waiting = <<>> /\ running = <<>>
       /\ index[1] = recipes
       /\ Len(index[1]) = Len(SerialRecipes(Len(recipe_dirs)))

\* C5's case: the index page was rendered after three chunks or more were merged in
\* another order than they were dispatched in.
C5_Witness ==
    /\ index # <<>>
    /\ mode = "parallel"
    /\ Len(chunks) >= 3
    /\ Len(merged) = Len(chunks)
    /\ \E i \in 1..Len(merged) : merged[i] # i

\* C6 as claimed: the parallel branch is taken exactly when parallel execution is
\* available and there are more than 5 recipe directories.
C6_ParallelIffAvailableAndMany ==
    mode # "none" =>
        (mode = "parallel" <=> (app.available /\ Len(recipe_dirs) > 5))

\* C6 amended: the parallel branch is taken exactly when parallel execution is
\* available, there are more than 5 recipe directories and app.parallel is not 1;
\* in every other case, 5 directories included, the serial branch is taken.
C6_ParallelIffAvailableManyAndJobs ==
    mode # "none" =>
        /\ mode = "parallel"
             <=> (app.available /\ Len(recipe_dirs) > 5 /\ app.parallel # 1)
        /\ mode = "serial"
             <=> ~(app.available /\ Len(recipe_dirs) > 5 /\ app.parallel # 1)

\* C6's case: exactly 5 recipe directories, parallel execution available and
\* app.parallel above 1, and the serial branch taken.
C6_Witness ==
    /\ mode = "serial"
    /\ Len(recipe_dirs) = 5
    /\ app.available
    /\ app.parallel > 1

RECURSIVE PartialResult(_, _)
PartialResult(t, n) ==
    IF n = 0 THEN <<>>
    ELSE PartialResult(t, n - 1) \o ReadmeOf(chunks[t][n]).recipes

\* The records of the whole chunk of task t.
ChunkResult(t) == PartialResult(t, Len(chunks[t]))

\* The results of the first n merged chunks, in the order of the merge.
RECURSIVE MergedResults(_)
MergedResults(n) ==
    IF n = 0 THEN <<>> ELSE MergedResults(n - 1) \o ChunkResult(merged[n])

\* C18: in parallel mode the recipes list is made of whole chunk results only, each
\* appended once and only after its task has run through its chunk and sent its
\* result; a worker's accumulator holds the records of the folders of its own chunk
\* it has been through, and nothing else; the list the index page is rendered from
\* holds the result of every chunk exactly once.
C18_WholeChunksMergedOnce ==
    mode = "parallel" =>
        /\ \A t \in 1..Len(chunks) :
              /\ Cardinality({k \in 1..Len(merged) : merged[k] = t}) <= 1
              /\ acc[t] = PartialResult(t, wpos[t] - 1)
              /\ (pipe[t].sent /\ ~pipe[t].exc) => pipe[t].res = ChunkResult(t)
        /\ \A k \in 1..Len(merged) :
              /\ pipe[merged[k]].sent
              /\ ~pipe[merged[k]].exc
              /\ wpos[merged[k]] > Len(chunks[merged[k]])
        /\ recipes = MergedResults(Len(merged))
        /\ index # <<>>
           => \A t \in 1..Len(chunks) :
                 Cardinality({k \in 1..Len(merged) : merged[k] = t}) = 1

\* C18's case: the records of one chunk are in the recipes list while the worker of
\* another chunk is part of the way through its chunk.
C18_Witness ==
    /\ mode = "parallel"
    /\ recipes # <<>>
    /\ \E u \in 1..Len(chunks) :
          /\ u \notin Range(merged)
          /\ ~pipe[u].sent
          /\ 1 < wpos[u]
          /\ wpos[u] <= Len(chunks[u])
          /\ acc[u] # <<>>

====
